---- MODULE Spec2Model ----
(***************************************************************************)
(* Upload lifecycle of the e-commerce backend: the blog and product        *)
(* routers that keep their images on the local disk, and the product       *)
(* routers that keep them in the remote object store.                      *)
(***************************************************************************)
EXTENDS Integers, Sequences, FiniteSets, TLC

\* ------------------------------------------------------------------ bounds
MaxClock == 1
MaxFiles == 2
MaxId == 2
MaxUploads == 3
MaxList == 3
MaxRecords == 3
MaxPage == 3
MaxLimit == 2
MaxMails == 2
MaxAttempts == 5
MaxTimers == 3

\* --------------------------------------------------------- program constants
BadId == 0
timeoutStatus == 504
errorStatus == 500
minTitle == 3
maxTitle == 100
minText == 10

\* mongoose.connection.readyState: disconnected, connected, connecting,
\* disconnecting
ReadyStates == 0 .. 3
disconnected == 0
connected == 1

defaultPage == 1
defaultLimit == 10
\* a query parameter that is not given
undefined == 0

Reqs == {"r1"}
Ids == 1 .. MaxId
Exts == {".JPG"}
NoDoc == [coll |-> "none", images |-> <<>>]

VARIABLES
  now,      \* Date.now()
  fs,       \* paths of the files on the local disk
  db,       \* the Blog and Product collections: id -> document
  nextId,   \* next identifier the repository hands out
  quota,    \* files the model still lets requests upload
  cloud,    \* public_ids of the files in the remote object store
  nextPid,  \* next public_id the remote object store assigns
  lateUp,   \* uploads still in flight after Promise.all rejected
  late,     \* saves that lost the race against the timeout and are still in flight
  env,      \* process.env: whether EMAIL_USER and EMAIL_PASSWORD are set
  outbox,   \* mails handed to transporter.sendMail
  conn,     \* the datastore connection: isConnecting, readyState, attempts, timers
  req       \* one record per request handler in flight

vars == <<now, fs, db, nextId, quota, cloud, nextPid, lateUp, late, env, outbox, conn, req>>

\* ------------------------------------------------------------ pure helpers
Range(s) == {s[i] : i \in 1 .. Len(s)}

SeqsUpTo(S, n) == UNION {[1 .. k -> S] : k \in 0 .. n}

\* String.prototype.toLowerCase on a file extension
toLowerCase(ext) == IF ext = ".JPG" THEN ".jpg" ELSE ext

\* path.join(base, rel): paths are a directory (list of segments) and a file name
pathJoin(base, rel) == [dir |-> base \o rel.dir, name |-> rel.name]

PublicDir == <<"public">>
BlogUploadDir == <<"public", "uploads">>
ProductUploadDir == <<"public", "uploads", "products">>

\* multer.diskStorage filename callbacks
blogFilename(ts, ext) == [pfx |-> "", ts |-> ts, ext |-> ext]
productFilename(ts, ext) == [pfx |-> "product-", ts |-> ts, ext |-> toLowerCase(ext)]

\* where multer puts a file of the request
blogDestination(filename) == [dir |-> BlogUploadDir, name |-> filename]
productDestination(filename) == [dir |-> ProductUploadDir, name |-> filename]

\* what the handlers write into the images array for an uploaded file
blogImageRef(filename) == [dir |-> <<"uploads">>, name |-> filename]
productImageRef(filename) == [dir |-> <<>>, name |-> filename]

MapSeq(F(_), s) == [i \in 1 .. Len(s) |-> F(s[i])]

\* the elements of s at the positions in I, in order
Pick(s, I) ==
  LET F[k \in 0 .. Len(s)] ==
        IF k = 0 THEN <<>> ELSE IF k \in I THEN Append(F[k - 1], s[k]) ELSE F[k - 1]
  IN F[Len(s)]

\* a filter that keeps the images the new list includes
imagesToDeleteInverted(oldImages, newImages) ==
  SelectSeq(oldImages, LAMBDA img : img \in Range(newImages))

\* oldImages.filter(img => !newImages.includes(img))
imagesToDelete(oldImages, newImages) ==
  SelectSeq(oldImages, LAMBDA img : img \notin Range(newImages))

\* validation middleware; a text field is its length (0: missing or empty),
\* price is missing, not a number, or a number of hundredths
isNaN(price) == price.kind = "nan"
Falsy(price) == price.kind = "missing"

validateBlogPost(body) ==
  IF body.title = 0 \/ body.text = 0 THEN 400
  ELSE IF body.title < minTitle \/ body.title > maxTitle THEN 400
  ELSE IF body.text < minText THEN 400
  ELSE 0

\* a product validation whose lower title limit is exclusive
validateProductExclusive(body) ==
  IF body.title = 0 \/ Falsy(body.price) \/ body.text = 0 THEN 400
  ELSE IF body.title <= minTitle \/ body.title > maxTitle THEN 400
  ELSE IF body.text < minText THEN 400
  ELSE IF isNaN(body.price) \/ body.price.v <= 0 THEN 400
  ELSE 0

validateProduct(body) ==
  IF body.title = 0 \/ Falsy(body.price) \/ body.text = 0 THEN 400
  ELSE IF body.title < minTitle \/ body.title > maxTitle THEN 400
  ELSE IF body.text < minText THEN 400
  ELSE IF isNaN(body.price) \/ body.price.v <= 0 THEN 400
  ELSE 0

\* mongoose.Types.ObjectId.isValid
isValid(id) == id # BadId

\* ---------------------------------------------------------------- requests
TitleLens == {minTitle - 1, minTitle}
Bodies == {[title |-> t, text |-> minText, price |-> [kind |-> "num", v |-> 1]] : t \in TitleLens}

\* the body of a form submission without any field
NoForm == [formType |-> "", name |-> FALSE, email |-> FALSE, phone |-> FALSE, message |-> FALSE]

\* req.body without any field
NoBody == [title |-> 0, text |-> 0, price |-> [kind |-> "missing", v |-> 0]]

\* req.query of a request without query parameters, and the body of a
\* response that carries no listing
NoQuery == [page |-> undefined, limit |-> undefined, category |-> ""]
NoJson == [items |-> <<>>, currentPage |-> 0, totalPages |-> 0, total |-> 0]

Idle ==
  [coll |-> "none", op |-> "none", pc |-> "done", id |-> BadId,
   files |-> <<>>, old |-> <<>>, imgs |-> <<>>, todo |-> <<>>,
   err |-> "none", status |-> 0, tried |-> {}, failed |-> {},
   marked |-> <<>>, isArray |-> FALSE, pend |-> {}, res |-> <<>>, wanted |-> <<>>,
   query |-> NoQuery, found |-> <<>>, count |-> 0, order |-> <<>>, json |-> NoJson,
   body |-> NoBody, form |-> NoForm, destroyed |-> {}]

Doc(coll, images) == [coll |-> coll, images |-> images]

\* Model.findById(id): the document of that collection, or null
findById(coll, id) ==
  IF id \in Ids /\ db[id].coll = coll THEN db[id] ELSE NoDoc

\* res.status(status).json(...): the handler is finished
Respond(q, status) ==
  [q EXCEPT !.pc = "done", !.status = status, !.todo = <<>>, !.imgs = <<>>,
            !.pend = {}, !.marked = <<>>, !.isArray = FALSE]

\* fs.promises.unlink(path): removes the file, or throws (missing file,
\* permissions, busy) and leaves the disk as it was
unlink(path, throws) == IF path \in fs /\ ~throws THEN fs \ {path} ELSE fs

\* the module is loaded up to "let isConnecting = false"; mongoose.connection
\* is disconnected (readyState 0), connectWithRetry() has not been called yet
NotStarted ==
  [started |-> FALSE, isConnecting |-> FALSE, readyState |-> 0,
   inFlight |-> 0, attempts |-> 0, timers |-> 0]

\* process.env of a deployment whose mail credentials are set
Configured == [EMAIL_USER |-> TRUE, EMAIL_PASSWORD |-> TRUE]

Init ==
  /\ now = 0
  /\ fs = {}
  /\ db = [i \in Ids |-> NoDoc]
  /\ nextId = 1
  /\ quota = MaxUploads
  /\ cloud = {}
  /\ nextPid = 1
  /\ lateUp = 0
  /\ late = {}
  /\ env = Configured
  /\ outbox = 0
  /\ conn = NotStarted
  /\ req = [r \in Reqs |-> Idle]

\* the clock advances between any two steps
Tick ==
  /\ now < MaxClock
  /\ now' = now + 1
  /\ UNCHANGED <<fs, db, nextId, late, req, quota, cloud, nextPid, lateUp, env, outbox, conn>>

\* POST /: a multipart request arrives; the repository identifier the new
\* document will get is reserved here so that the bound never stops a handler
StartCreate(r, coll) ==
  /\ req[r].pc = "done"
  /\ nextId <= MaxId
  /\ req' = [req EXCEPT ![r] =
              [Idle EXCEPT !.coll = coll, !.op = "create", !.id = nextId, !.pc = "upload"]]
  /\ nextId' = nextId + 1
  /\ UNCHANGED <<now, fs, db, quota, late, cloud, nextPid, lateUp, env, outbox, conn>>

\* PUT /:id: a multipart request arrives
StartUpdate(r, coll) ==
  /\ req[r].pc = "done"
  /\ \E id \in Ids \cup {BadId} :
       req' = [req EXCEPT ![r] =
                 [Idle EXCEPT !.coll = coll, !.op = "update", !.id = id, !.pc = "upload"]]
  /\ UNCHANGED <<now, fs, db, nextId, quota, late, cloud, nextPid, lateUp, env, outbox, conn>>

\* upload.array('images', 10): multer writes the next file of the request
\* (a request carries at most MaxFiles files, all requests MaxUploads)
StoreFile(r) ==
  LET q == req[r]
  IN /\ q.pc = "upload" /\ q.coll # "remote"
     /\ quota > 0 /\ Len(q.files) < MaxFiles
     /\ \E ext \in Exts :
          LET filename == IF q.coll = "product" THEN productFilename(now, ext)
                          ELSE blogFilename(now, ext)
              dest == IF q.coll = "product" THEN productDestination(filename)
                      ELSE blogDestination(filename)
          IN /\ fs' = fs \cup {dest}
             /\ req' = [req EXCEPT ![r].files = Append(@, filename)]
     /\ quota' = quota - 1
     /\ UNCHANGED <<now, db, nextId, late, cloud, nextPid, lateUp, env, outbox, conn>>

\* the validation middleware the router of a collection installs
validate(coll, body) ==
  IF coll = "blog" THEN validateBlogPost(body) ELSE validateProduct(body)

\* the upload middleware is finished and the body passes validation
Accepted(q) == q.pc = "upload" /\ \E body \in Bodies : validate(q.coll, body) = 0

\* validateProduct / validateBlogPost answer 400
ValidateReject(r) ==
  LET q == req[r]
  IN /\ q.pc = "upload"
     /\ \E body \in Bodies :
          /\ validate(q.coll, body) # 0
          /\ req' = [req EXCEPT ![r] = Respond(q, validate(q.coll, body))]
     /\ UNCHANGED <<now, fs, db, nextId, late, quota, cloud, nextPid, lateUp, env, outbox, conn>>

\* ------------------------------------------------- local product: POST /
\* the handler builds the product and starts product.save() raced against
\* the timer
PCreateBegin(r) ==
  LET q == req[r]
  IN /\ Accepted(q) /\ q.coll = "product" /\ q.op = "create"
     /\ req' = [req EXCEPT ![r].imgs = MapSeq(productImageRef, q.files),
                           ![r].pc = "save"]
     /\ UNCHANGED <<now, fs, db, nextId, late, quota, cloud, nextPid, lateUp, env, outbox, conn>>

\* product.save() wins the race: 201
PCreateSaved(r) ==
  LET q == req[r]
  IN /\ q.pc = "save" /\ q.coll = "product" /\ q.op = "create"
     /\ db' = [db EXCEPT ![q.id] = Doc("product", q.imgs)]
     /\ req' = [req EXCEPT ![r] = Respond(q, 201)]
     /\ UNCHANGED <<now, fs, nextId, late, quota, cloud, nextPid, lateUp, env, outbox, conn>>

\* a status computation that does not tell the timeout from other failures
statusCodeNoTimeout(err) == errorStatus

\* error.message === 'Database operation timed out' ? 504 : 500
statusCode(err) == IF err = "timeout" THEN timeoutStatus ELSE errorStatus

\* entry of the catch block: the loop over uploadedFiles, then the response
PCreateCatch(q, err) ==
  LET status == statusCode(err)
      q1 == [q EXCEPT !.err = err]
  IN IF q.files = <<>> THEN Respond(q1, status)
     ELSE [q1 EXCEPT !.pc = "catch", !.todo = MapSeq(productImageRef, q.files)]

\* product.save() rejects
PCreateSaveFailed(r) ==
  LET q == req[r]
  IN /\ q.pc = "save" /\ q.coll = "product" /\ q.op = "create"
     /\ req' = [req EXCEPT ![r] = PCreateCatch(q, "db")]
     /\ UNCHANGED <<now, fs, db, nextId, late, quota, cloud, nextPid, lateUp, env, outbox, conn>>

\* the timer rejects first; nothing cancels the save, which stays in flight
PCreateTimeout(r) ==
  LET q == req[r]
  IN /\ q.pc = "save" /\ q.coll = "product" /\ q.op = "create"
     /\ req' = [req EXCEPT ![r] = PCreateCatch(q, "timeout")]
     /\ late' = late \cup {[id |-> q.id, images |-> q.imgs]}
     /\ UNCHANGED <<now, fs, db, nextId, quota, cloud, nextPid, lateUp, env, outbox, conn>>

\* one iteration of the catch block's loop; after the last one the response
PCreateUnlink(r) ==
  LET q == req[r]
      filePath == pathJoin(ProductUploadDir, Head(q.todo))
      status == statusCode(q.err)
  IN /\ q.pc = "catch" /\ q.coll = "product"
     /\ \E throws \in BOOLEAN :
          /\ fs' = unlink(filePath, throws)
          /\ LET q1 == [q EXCEPT !.todo = Tail(@),
                                 !.tried = @ \cup {filePath},
                                 !.failed = IF filePath \in fs' THEN @ \cup {filePath} ELSE @]
             IN req' = [req EXCEPT ![r] =
                          IF Tail(q.todo) = <<>> THEN Respond(q1, status) ELSE q1]
     /\ UNCHANGED <<now, db, nextId, late, quota, cloud, nextPid, lateUp, env, outbox, conn>>

\* a save that lost the race completes
LateSaved ==
  \E l \in late :
    /\ db' = [db EXCEPT ![l.id] = Doc("product", l.images)]
    /\ late' = late \ {l}
    /\ UNCHANGED <<now, fs, nextId, req, quota, cloud, nextPid, lateUp, env, outbox, conn>>

\* a save that lost the race fails
LateSaveFailed ==
  \E l \in late :
    /\ late' = late \ {l}
    /\ UNCHANGED <<now, fs, db, nextId, req, quota, cloud, nextPid, lateUp, env, outbox, conn>>

\* --------------------------------------------------------- blog: POST /
BCreateBegin(r) ==
  LET q == req[r]
  IN /\ Accepted(q) /\ q.coll = "blog" /\ q.op = "create"
     /\ req' = [req EXCEPT ![r].imgs = MapSeq(blogImageRef, q.files),
                           ![r].pc = "save"]
     /\ UNCHANGED <<now, fs, db, nextId, late, quota, cloud, nextPid, lateUp, env, outbox, conn>>

BCreateSaved(r) ==
  LET q == req[r]
  IN /\ q.pc = "save" /\ q.coll = "blog" /\ q.op = "create"
     /\ db' = [db EXCEPT ![q.id] = Doc("blog", q.imgs)]
     /\ req' = [req EXCEPT ![r] = Respond(q, 201)]
     /\ UNCHANGED <<now, fs, nextId, late, quota, cloud, nextPid, lateUp, env, outbox, conn>>

\* blog.save() rejects: the catch block only answers 400
BCreateSaveFailed(r) ==
  LET q == req[r]
  IN /\ q.pc = "save" /\ q.coll = "blog" /\ q.op = "create"
     /\ req' = [req EXCEPT ![r] = Respond([q EXCEPT !.err = "db"], 400)]
     /\ UNCHANGED <<now, fs, db, nextId, late, quota, cloud, nextPid, lateUp, env, outbox, conn>>

\* ------------------------------------------------ PUT /:id and DELETE /:id
\* status of the catch block of each handler
catchStatus(q) == IF q.coll = "blog" /\ q.op = "update" THEN 400 ELSE errorStatus

\* PUT /:id after validation: Model.findById is started
UpdateBegin(r) ==
  LET q == req[r]
  IN /\ Accepted(q) /\ q.op = "update"
     /\ req' = [req EXCEPT ![r].pc = "find"]
     /\ UNCHANGED <<now, fs, db, nextId, late, quota, cloud, nextPid, lateUp, env, outbox, conn>>

\* DELETE /:id: the product router checks the identifier, then both start
\* Model.findById
StartDelete(r, coll) ==
  /\ req[r].pc = "done"
  /\ \E id \in Ids \cup {BadId} :
       LET q == [Idle EXCEPT !.coll = coll, !.op = "delete", !.id = id, !.pc = "find"]
       IN req' = [req EXCEPT ![r] =
                    IF coll = "product" /\ ~isValid(id) THEN Respond(q, 400) ELSE q]
  /\ UNCHANGED <<now, fs, db, nextId, late, quota, cloud, nextPid, lateUp, env, outbox, conn>>

\* GET /:id: the product routers check the identifier, then start findById
StartGet(r, coll) ==
  /\ req[r].pc = "done"
  /\ \E id \in Ids \cup {BadId} :
       LET q == [Idle EXCEPT !.coll = coll, !.op = "get", !.id = id, !.pc = "find"]
       IN req' = [req EXCEPT ![r] = IF ~isValid(id) THEN Respond(q, 400) ELSE q]
  /\ UNCHANGED <<now, fs, db, nextId, late, quota, cloud, nextPid, lateUp, env, outbox, conn>>

\* GET /:id: the document is found and sent
GetFound(r) ==
  LET q == req[r]
      product == findById(q.coll, q.id)
  IN /\ q.pc = "find" /\ q.op = "get"
     /\ product # NoDoc
     /\ req' = [req EXCEPT ![r] = Respond([q EXCEPT !.old = product.images], 200)]
     /\ UNCHANGED <<now, fs, db, nextId, late, quota, cloud, nextPid, lateUp, env, outbox, conn>>

\* findById throws (a malformed identifier cannot be cast, or the datastore
\* fails): the catch block answers
FindFailed(r) ==
  LET q == req[r]
  IN /\ q.pc = "find"
     /\ req' = [req EXCEPT ![r] = Respond([q EXCEPT !.err = "db"], catchStatus(q))]
     /\ UNCHANGED <<now, fs, db, nextId, late, quota, cloud, nextPid, lateUp, env, outbox, conn>>

\* findById resolves to null: 404
FindMissing(r) ==
  LET q == req[r]
  IN /\ q.pc = "find" /\ isValid(q.id)
     /\ findById(q.coll, q.id) = NoDoc
     /\ req' = [req EXCEPT ![r] = Respond(q, 404)]
     /\ UNCHANGED <<now, fs, db, nextId, late, quota, cloud, nextPid, lateUp, env, outbox, conn>>

\* local product PUT /:id: updatedImages = [...product.images, ...newImages]
PUpdateFound(r) ==
  LET q == req[r]
      product == findById("product", q.id)
      newImages == MapSeq(productImageRef, q.files)
  IN /\ q.pc = "find" /\ q.coll = "product" /\ q.op = "update"
     /\ product # NoDoc
     /\ req' = [req EXCEPT ![r].old = product.images,
                           ![r].imgs = product.images \o newImages,
                           ![r].pc = "save"]
     /\ UNCHANGED <<now, fs, db, nextId, late, quota, cloud, nextPid, lateUp, env, outbox, conn>>

\* a blog update that replaces the image list by the uploaded images
BUpdateFoundReplacing(r) ==
  LET q == req[r]
      blog == findById("blog", q.id)
      newImages == MapSeq(blogImageRef, q.files)
      todo == imagesToDelete(blog.images, newImages)
  IN /\ q.pc = "find" /\ q.coll = "blog" /\ q.op = "update"
     /\ blog # NoDoc
     /\ req' = [req EXCEPT ![r].old = blog.images,
                           ![r].imgs = newImages,
                           ![r].todo = todo,
                           ![r].pc = IF todo = <<>> THEN "save" ELSE "cleanup"]
     /\ UNCHANGED <<now, fs, db, nextId, late, quota, cloud, nextPid, lateUp, env, outbox, conn>>

\* blog PUT /:id: the images are appended and cleanupUnusedImages is called
\* with the old and the new list; the handler reads title, content and
\* category only, so a list of images to keep that the body carries (wanted,
\* followed by the uploads) is never read
BUpdateFound(r) ==
  LET q == req[r]
      blog == findById("blog", q.id)
      newImages == MapSeq(blogImageRef, q.files)
      oldImages == blog.images
      images == blog.images \o newImages
      todo == imagesToDelete(oldImages, images)
  IN /\ q.pc = "find" /\ q.coll = "blog" /\ q.op = "update"
     /\ blog # NoDoc
     /\ \E I \in SUBSET (1 .. Len(oldImages)) :
          req' = [req EXCEPT ![r].old = oldImages,
                             ![r].imgs = images,
                             ![r].todo = todo,
                             ![r].wanted = Pick(oldImages, I) \o newImages,
                             ![r].pc = IF todo = <<>> THEN "save" ELSE "cleanup"]
     /\ UNCHANGED <<now, fs, db, nextId, late, quota, cloud, nextPid, lateUp, env, outbox, conn>>

\* blog DELETE /:id: cleanupUnusedImages(blog.images, [])
BDeleteFound(r) ==
  LET q == req[r]
      blog == findById("blog", q.id)
      todo == imagesToDelete(blog.images, <<>>)
  IN /\ q.pc = "find" /\ q.coll = "blog" /\ q.op = "delete"
     /\ blog # NoDoc
     /\ req' = [req EXCEPT ![r].old = blog.images,
                           ![r].todo = todo,
                           ![r].pc = IF todo = <<>> THEN "remove" ELSE "cleanup"]
     /\ UNCHANGED <<now, fs, db, nextId, late, quota, cloud, nextPid, lateUp, env, outbox, conn>>

\* local product DELETE /:id: the loop over product.images starts
PDeleteFound(r) ==
  LET q == req[r]
      product == findById("product", q.id)
  IN /\ q.pc = "find" /\ q.coll = "product" /\ q.op = "delete"
     /\ product # NoDoc
     /\ req' = [req EXCEPT ![r].old = product.images,
                           ![r].todo = product.images,
                           ![r].pc = IF product.images = <<>> THEN "remove" ELSE "unlink"]
     /\ UNCHANGED <<now, fs, db, nextId, late, quota, cloud, nextPid, lateUp, env, outbox, conn>>

\* one iteration of a delete loop: path.join(public, img), existsSync, unlink
\* inside try/catch
deleteIfExists(q, throws) == unlink(pathJoin(PublicDir, Head(q.todo)), throws)

loopStep(q, fsAfter) ==
  LET imagePath == pathJoin(PublicDir, Head(q.todo))
  IN [q EXCEPT !.todo = Tail(@),
               !.tried = @ \cup {imagePath},
               !.failed = IF imagePath \in fsAfter THEN @ \cup {imagePath} ELSE @]

\* cleanupUnusedImages: one iteration of its loop
CleanupStep(r) ==
  LET q == req[r]
  IN /\ q.pc = "cleanup"
     /\ \E throws \in BOOLEAN :
          /\ fs' = deleteIfExists(q, throws)
          /\ req' = [req EXCEPT ![r] =
                       [loopStep(q, fs') EXCEPT
                          !.pc = IF Tail(q.todo) # <<>> THEN "cleanup"
                                 ELSE IF q.op = "update" THEN "save"
                                 ELSE IF q.op = "delete" THEN "remove" ELSE "returned"]]
     /\ UNCHANGED <<now, db, nextId, late, quota, cloud, nextPid, lateUp, env, outbox, conn>>

\* local product DELETE /:id: one iteration of the loop over product.images
PDeleteImage(r) ==
  LET q == req[r]
  IN /\ q.pc = "unlink"
     /\ \E throws \in BOOLEAN :
          /\ fs' = deleteIfExists(q, throws)
          /\ req' = [req EXCEPT ![r] =
                       [loopStep(q, fs') EXCEPT
                          !.pc = IF Tail(q.todo) # <<>> THEN "unlink" ELSE "remove"]]
     /\ UNCHANGED <<now, db, nextId, late, quota, cloud, nextPid, lateUp, env, outbox, conn>>

\* document.save() of an update succeeds; it fails when the document is gone
UpdateSaved(r) ==
  LET q == req[r]
  IN /\ q.pc = "save" /\ q.op = "update"
     /\ findById(q.coll, q.id) # NoDoc
     /\ db' = [db EXCEPT ![q.id].images = q.imgs]
     /\ req' = [req EXCEPT ![r] = Respond(q, 200)]
     /\ UNCHANGED <<now, fs, nextId, late, quota, cloud, nextPid, lateUp, env, outbox, conn>>

UpdateSaveFailed(r) ==
  LET q == req[r]
  IN /\ q.pc = "save" /\ q.op = "update"
     /\ req' = [req EXCEPT ![r] = Respond([q EXCEPT !.err = "db"], catchStatus(q))]
     /\ UNCHANGED <<now, fs, db, nextId, late, quota, cloud, nextPid, lateUp, env, outbox, conn>>

\* Product.findByIdAndDelete / blog.remove() succeeds
RemoveDone(r) ==
  LET q == req[r]
  IN /\ q.pc = "remove"
     /\ db' = [db EXCEPT ![q.id] = NoDoc]
     /\ req' = [req EXCEPT ![r] = Respond(q, 200)]
     /\ UNCHANGED <<now, fs, nextId, late, quota, cloud, nextPid, lateUp, env, outbox, conn>>

RemoveFailed(r) ==
  LET q == req[r]
  IN /\ q.pc = "remove"
     /\ req' = [req EXCEPT ![r] = Respond([q EXCEPT !.err = "db"], catchStatus(q))]
     /\ UNCHANGED <<now, fs, db, nextId, late, quota, cloud, nextPid, lateUp, env, outbox, conn>>

\* ------------------------------------------- remote object store (Cloudinary)
MaxMarked == 2
MaxImages == 2 * MaxUploads

\* an entry of the images array of a remote product
remoteImage(pid) == [url |-> <<"https", pid>>, public_id |-> pid]
publicId(image) == image.public_id

\* cloudinary.uploader.destroy(public_id) resolves (also for an unknown id)
destroy(pid) == cloud \ {pid}

\* POST /: a multipart request arrives at the remote product router
RStartCreate(r) ==
  /\ req[r].pc = "done"
  /\ nextId <= MaxId
  /\ req' = [req EXCEPT ![r] =
              [Idle EXCEPT !.coll = "remote", !.op = "create", !.id = nextId, !.pc = "upload"]]
  /\ nextId' = nextId + 1
  /\ UNCHANGED <<now, fs, db, quota, late, cloud, nextPid, lateUp, env, outbox, conn>>

\* PUT /:id: a multipart request arrives at the remote product router
RStartUpdate(r) ==
  /\ req[r].pc = "done"
  /\ \E id \in Ids \cup {BadId} :
       req' = [req EXCEPT ![r] =
                 [Idle EXCEPT !.coll = "remote", !.op = "update", !.id = id, !.pc = "upload"]]
  /\ UNCHANGED <<now, fs, db, nextId, quota, late, cloud, nextPid, lateUp, env, outbox, conn>>

\* upload.array('images', 10) of config/cloudinary: the file goes to the
\* remote store, file.filename is the public_id the store assigned
RStoreFile(r) ==
  LET q == req[r]
  IN /\ q.pc = "upload" /\ q.coll = "remote"
     /\ quota > 0 /\ Len(q.files) < MaxFiles
     /\ cloud' = cloud \cup {nextPid}
     /\ nextPid' = nextPid + 1
     /\ quota' = quota - 1
     /\ req' = [req EXCEPT ![r].files = Append(@, nextPid)]
     /\ UNCHANGED <<now, fs, db, nextId, late, lateUp, env, outbox, conn>>

\* POST / after validation: one cloudinary.uploader.upload per file is started
RCreateBegin(r) ==
  LET q == req[r]
  IN /\ Accepted(q) /\ q.coll = "remote" /\ q.op = "create"
     /\ req' = [req EXCEPT ![r].pc = IF q.files = <<>> THEN "save" ELSE "uploading"]
     /\ UNCHANGED <<now, fs, db, nextId, quota, late, cloud, nextPid, lateUp, env, outbox, conn>>

\* the next explicit upload resolves; after the last one the images are
\* attached (create: images; update: product.images.push) and save() starts
RUploadDone(r) ==
  LET q == req[r]
      res == Append(q.res, nextPid)
      newImages == MapSeq(remoteImage, res)
  IN /\ q.pc = "uploading"
     /\ cloud' = cloud \cup {nextPid}
     /\ nextPid' = nextPid + 1
     /\ req' = [req EXCEPT ![r].res = res,
                           ![r].imgs = IF Len(res) = Len(q.files) THEN @ \o newImages ELSE @,
                           ![r].pc = IF Len(res) = Len(q.files) THEN "save" ELSE "uploading"]
     /\ UNCHANGED <<now, fs, db, nextId, quota, late, lateUp, env, outbox, conn>>

\* the catch block of POST /: the loop over req.files, then 500
RCreateCatch(q, err) ==
  IF q.files = <<>> THEN Respond([q EXCEPT !.err = err], errorStatus)
  ELSE [q EXCEPT !.err = err, !.pc = "catch", !.todo = q.files]

\* an explicit upload rejects: Promise.all rejects at once, the other
\* uploads stay in flight
RUploadFailed(r) ==
  LET q == req[r]
  IN /\ q.pc = "uploading"
     /\ lateUp' = lateUp + (Len(q.files) - Len(q.res) - 1)
     /\ req' = [req EXCEPT ![r] =
                  IF q.op = "create" THEN RCreateCatch(q, "upload")
                  ELSE Respond([q EXCEPT !.err = "upload"], errorStatus)]
     /\ UNCHANGED <<now, fs, db, nextId, quota, late, cloud, nextPid, env, outbox, conn>>

\* an upload nobody waits for any more completes
LateUploaded ==
  /\ lateUp > 0
  /\ lateUp' = lateUp - 1
  /\ cloud' = cloud \cup {nextPid}
  /\ nextPid' = nextPid + 1
  /\ UNCHANGED <<now, fs, db, nextId, quota, late, req, env, outbox, conn>>

LateUploadFailed ==
  /\ lateUp > 0
  /\ lateUp' = lateUp - 1
  /\ UNCHANGED <<now, fs, db, nextId, quota, late, req, cloud, nextPid, env, outbox, conn>>

RCreateSaved(r) ==
  LET q == req[r]
  IN /\ q.pc = "save" /\ q.coll = "remote" /\ q.op = "create"
     /\ db' = [db EXCEPT ![q.id] = Doc("remote", q.imgs)]
     /\ req' = [req EXCEPT ![r] = Respond(q, 201)]
     /\ UNCHANGED <<now, fs, nextId, quota, late, cloud, nextPid, lateUp, env, outbox, conn>>

RCreateSaveFailed(r) ==
  LET q == req[r]
  IN /\ q.pc = "save" /\ q.coll = "remote" /\ q.op = "create"
     /\ req' = [req EXCEPT ![r] = RCreateCatch(q, "db")]
     /\ UNCHANGED <<now, fs, db, nextId, quota, late, cloud, nextPid, lateUp, env, outbox, conn>>

\* one iteration of the catch block's loop: destroy(file.filename) in try/catch
RCreateDestroy(r) ==
  LET q == req[r]
      pid == Head(q.todo)
  IN /\ q.pc = "catch" /\ q.coll = "remote"
     /\ \E throws \in BOOLEAN :
          /\ cloud' = IF throws THEN cloud ELSE destroy(pid)
          /\ LET q1 == [q EXCEPT !.todo = Tail(@),
                                 !.tried = @ \cup {pid},
                                 !.failed = IF throws THEN @ \cup {pid} ELSE @]
             IN req' = [req EXCEPT ![r] =
                          IF Tail(q.todo) = <<>> THEN Respond(q1, errorStatus) ELSE q1]
     /\ UNCHANGED <<now, fs, db, nextId, quota, late, nextPid, lateUp, env, outbox, conn>>

\* where a handler goes once its destroy promises have all settled
afterDestroys(q) ==
  IF q.op = "delete" THEN "remove"
  ELSE IF q.files # <<>> THEN "uploading" ELSE "save"

\* PUT /:id: the document is found; a destroy is started for every marked
\* identifier the document references
RUpdateFound(r) ==
  LET q == req[r]
      product == findById("remote", q.id)
      known == {product.images[i].public_id : i \in 1 .. Len(product.images)}
  IN /\ q.pc = "find" /\ q.coll = "remote" /\ q.op = "update"
     /\ product # NoDoc
     /\ \E isArray \in BOOLEAN, deletedImages \in SeqsUpTo(known \cup {nextPid}, MaxMarked) :
          LET pend == IF isArray
                      THEN {k \in 1 .. Len(deletedImages) : deletedImages[k] \in known}
                      ELSE {}
          IN /\ isArray \/ Len(deletedImages) <= 1
             /\ req' = [req EXCEPT ![r].old = product.images,
                                   ![r].imgs = product.images,
                                   ![r].marked = deletedImages,
                                   ![r].isArray = isArray,
                                   ![r].pend = pend,
                                   ![r].pc = IF pend # {} THEN "destroying"
                                             ELSE afterDestroys(q)]
     /\ UNCHANGED <<now, fs, db, nextId, quota, late, cloud, nextPid, lateUp, env, outbox, conn>>

\* DELETE /:id (cloudinary.uploader): a destroy is started for every image
RDeleteFound(r) ==
  LET q == req[r]
      product == findById("remote", q.id)
      pend == 1 .. Len(product.images)
  IN /\ q.pc = "find" /\ q.coll = "remote" /\ q.op = "delete"
     /\ product # NoDoc
     /\ req' = [req EXCEPT ![r].old = product.images,
                           ![r].marked = MapSeq(publicId, product.images),
                           ![r].pend = pend,
                           ![r].pc = IF pend # {} THEN "destroying" ELSE "remove"]
     /\ UNCHANGED <<now, fs, db, nextId, quota, late, cloud, nextPid, lateUp, env, outbox, conn>>

\* a destroy whose .then leaves product.images as it was
RDestroyDoneKeeping(r, k) ==
  LET q == req[r]
      imageId == q.marked[k]
      pend == q.pend \ {k}
  IN /\ q.pc = "destroying" /\ k \in q.pend
     /\ cloud' = destroy(imageId)
     /\ req' = [req EXCEPT ![r].pend = pend,
                           ![r].tried = @ \cup {imageId},
                           ![r].destroyed = @ \cup {imageId},
                           ![r].pc = IF pend = {} THEN afterDestroys(q) ELSE "destroying"]
     /\ UNCHANGED <<now, fs, db, nextId, quota, late, nextPid, lateUp, env, outbox, conn>>

\* one destroy resolves; in PUT its .then drops the image from product.images
RDestroyDone(r, k) ==
  LET q == req[r]
      imageId == q.marked[k]
      pend == q.pend \ {k}
  IN /\ q.pc = "destroying" /\ k \in q.pend
     /\ cloud' = destroy(imageId)
     /\ req' = [req EXCEPT ![r].pend = pend,
                           ![r].tried = @ \cup {imageId},
                           ![r].destroyed = @ \cup {imageId},
                           ![r].imgs = IF q.op = "update"
                                       THEN SelectSeq(@, LAMBDA img : img.public_id # imageId)
                                       ELSE @,
                           ![r].pc = IF pend = {} THEN afterDestroys(q) ELSE "destroying"]
     /\ UNCHANGED <<now, fs, db, nextId, quota, late, nextPid, lateUp, env, outbox, conn>>

\* a destroy whose rejection is not caught: Promise.all rejects and the outer
\* catch block answers 500
RDestroyFailedUncaught(r, k) ==
  LET q == req[r]
      imageId == q.marked[k]
  IN /\ q.pc = "destroying" /\ k \in q.pend
     /\ req' = [req EXCEPT ![r] =
                  Respond([q EXCEPT !.err = "destroy", !.tried = @ \cup {imageId},
                                    !.failed = @ \cup {imageId}], errorStatus)]
     /\ UNCHANGED <<now, fs, db, nextId, quota, late, cloud, nextPid, lateUp, env, outbox, conn>>

\* one destroy rejects; its .catch logs
RDestroyFailed(r, k) ==
  LET q == req[r]
      imageId == q.marked[k]
      pend == q.pend \ {k}
  IN /\ q.pc = "destroying" /\ k \in q.pend
     /\ req' = [req EXCEPT ![r].pend = pend,
                           ![r].tried = @ \cup {imageId},
                           ![r].failed = @ \cup {imageId},
                           ![r].pc = IF pend = {} THEN afterDestroys(q) ELSE "destroying"]
     /\ UNCHANGED <<now, fs, db, nextId, quota, late, cloud, nextPid, lateUp, env, outbox, conn>>

\* DELETE /:id (upload.destroy): the identifier is checked, findById starts
RStartDelete(r, op) ==
  /\ req[r].pc = "done"
  /\ \E id \in Ids \cup {BadId} :
       LET q == [Idle EXCEPT !.coll = "remote", !.op = op, !.id = id, !.pc = "find"]
       IN req' = [req EXCEPT ![r] =
                    IF op = "delete2" /\ ~isValid(id) THEN Respond(q, 400) ELSE q]
  /\ UNCHANGED <<now, fs, db, nextId, quota, late, cloud, nextPid, lateUp, env, outbox, conn>>

RDelete2Found(r) ==
  LET q == req[r]
      product == findById("remote", q.id)
  IN /\ q.pc = "find" /\ q.coll = "remote" /\ q.op = "delete2"
     /\ product # NoDoc
     /\ req' = [req EXCEPT ![r].old = product.images,
                           ![r].todo = MapSeq(publicId, product.images),
                           ![r].pc = IF product.images = <<>> THEN "remove" ELSE "destroy2"]
     /\ UNCHANGED <<now, fs, db, nextId, quota, late, cloud, nextPid, lateUp, env, outbox, conn>>

\* one iteration of the loop: await upload.destroy(image.public_id) resolves
RDelete2Destroy(r) ==
  LET q == req[r]
      pid == Head(q.todo)
  IN /\ q.pc = "destroy2"
     /\ cloud' = destroy(pid)
     /\ req' = [req EXCEPT ![r].todo = Tail(@),
                           ![r].tried = @ \cup {pid},
                           ![r].pc = IF Tail(q.todo) = <<>> THEN "remove" ELSE "destroy2"]
     /\ UNCHANGED <<now, fs, db, nextId, quota, late, nextPid, lateUp, env, outbox, conn>>

\* upload.destroy throws inside the loop: the outer catch block answers 500
RDelete2DestroyFailed(r) ==
  LET q == req[r]
      pid == Head(q.todo)
  IN /\ q.pc = "destroy2"
     /\ req' = [req EXCEPT ![r] =
                  Respond([q EXCEPT !.err = "destroy", !.tried = @ \cup {pid},
                                    !.failed = @ \cup {pid}], errorStatus)]
     /\ UNCHANGED <<now, fs, db, nextId, quota, late, cloud, nextPid, lateUp, env, outbox, conn>>

NextRemote ==
  \/ \E r \in Reqs : RStartCreate(r)
  \/ \E r \in Reqs : RStartUpdate(r)
  \/ \E r \in Reqs, op \in {"delete", "delete2"} : RStartDelete(r, op)
  \/ \E r \in Reqs : StartGet(r, "remote")
  \/ \E r \in Reqs : GetFound(r)
  \/ \E r \in Reqs : RStoreFile(r)
  \/ \E r \in Reqs : ValidateReject(r)
  \/ \E r \in Reqs : RCreateBegin(r)
  \/ \E r \in Reqs : RUploadDone(r)
  \/ \E r \in Reqs : RUploadFailed(r)
  \/ LateUploaded
  \/ LateUploadFailed
  \/ \E r \in Reqs : RCreateSaved(r)
  \/ \E r \in Reqs : RCreateSaveFailed(r)
  \/ \E r \in Reqs : RCreateDestroy(r)
  \/ \E r \in Reqs : UpdateBegin(r)
  \/ \E r \in Reqs : FindFailed(r)
  \/ \E r \in Reqs : FindMissing(r)
  \/ \E r \in Reqs : RUpdateFound(r)
  \/ \E r \in Reqs : RDeleteFound(r)
  \/ \E r \in Reqs : RDelete2Found(r)
  \/ \E r \in Reqs, k \in 1 .. MaxImages : RDestroyDone(r, k)
  \/ \E r \in Reqs, k \in 1 .. MaxImages : RDestroyFailed(r, k)
  \/ \E r \in Reqs : RDelete2Destroy(r)
  \/ \E r \in Reqs : RDelete2DestroyFailed(r)
  \/ \E r \in Reqs : UpdateSaved(r)
  \/ \E r \in Reqs : UpdateSaveFailed(r)
  \/ \E r \in Reqs : RemoveDone(r)
  \/ \E r \in Reqs : RemoveFailed(r)

SpecRemote == Init /\ [][NextRemote]_vars


\* ------------------------------------- cleanupUnusedImages on its own inputs
HarnessImages == {blogImageRef(blogFilename(ts, ext)) : ts \in 0 .. MaxList, ext \in Exts}

\* one list per set of images: a new list matters through includes() only
NewLists ==
  {s \in SeqsUpTo(HarnessImages, MaxList + 1) :
     \A i \in 1 .. Len(s) - 1 : s[i].name.ts < s[i + 1].name.ts}

InitCleanup ==
  /\ now = 0
  /\ db = [i \in Ids |-> NoDoc]
  /\ nextId = 1
  /\ quota = MaxUploads
  /\ cloud = {}
  /\ nextPid = 1
  /\ lateUp = 0
  /\ late = {}
  /\ env = Configured
  /\ outbox = 0
  /\ conn = NotStarted
  /\ \/ fs = {} /\ req = [r \in Reqs |-> Idle]
     \/ /\ fs \in SUBSET {pathJoin(PublicDir, img) : img \in HarnessImages}
        /\ \E oldImages \in SeqsUpTo(HarnessImages, MaxList), newImages \in NewLists :
             req = [r \in Reqs |->
                      [Idle EXCEPT !.coll = "blog", !.op = "cleanup", !.pc = "call",
                                   !.old = oldImages, !.imgs = newImages]]

\* cleanupUnusedImages(oldImages, newImages) is called
CleanupCall(r) ==
  LET q == req[r]
      todo == imagesToDelete(q.old, q.imgs)
  IN /\ q.pc = "call"
     /\ req' = [req EXCEPT ![r].todo = todo,
                           ![r].pc = IF todo = <<>> THEN "returned" ELSE "cleanup"]
     /\ UNCHANGED <<now, fs, db, nextId, quota, late, cloud, nextPid, lateUp, env, outbox, conn>>


Colls == {"product", "blog"}

Next ==
  \/ Tick
  \/ \E r \in Reqs, coll \in Colls : StartCreate(r, coll)
  \/ \E r \in Reqs, coll \in Colls : StartUpdate(r, coll)
  \/ \E r \in Reqs, coll \in Colls : StartDelete(r, coll)
  \/ \E r \in Reqs : StartGet(r, "product")
  \/ \E r \in Reqs : GetFound(r)
  \/ \E r \in Reqs : StoreFile(r)
  \/ \E r \in Reqs : ValidateReject(r)
  \/ \E r \in Reqs : PCreateBegin(r)
  \/ \E r \in Reqs : PCreateSaved(r)
  \/ \E r \in Reqs : PCreateSaveFailed(r)
  \/ \E r \in Reqs : PCreateTimeout(r)
  \/ \E r \in Reqs : PCreateUnlink(r)
  \/ LateSaved
  \/ LateSaveFailed
  \/ \E r \in Reqs : BCreateBegin(r)
  \/ \E r \in Reqs : BCreateSaved(r)
  \/ \E r \in Reqs : BCreateSaveFailed(r)
  \/ \E r \in Reqs : UpdateBegin(r)
  \/ \E r \in Reqs : FindFailed(r)
  \/ \E r \in Reqs : FindMissing(r)
  \/ \E r \in Reqs : PUpdateFound(r)
  \/ \E r \in Reqs : BUpdateFound(r)
  \/ \E r \in Reqs : BDeleteFound(r)
  \/ \E r \in Reqs : PDeleteFound(r)
  \/ \E r \in Reqs : CleanupStep(r)
  \/ \E r \in Reqs : PDeleteImage(r)
  \/ \E r \in Reqs : UpdateSaved(r)
  \/ \E r \in Reqs : UpdateSaveFailed(r)
  \/ \E r \in Reqs : RemoveDone(r)
  \/ \E r \in Reqs : RemoveFailed(r)

Spec == Init /\ [][Next]_vars

NextCleanup ==
  \/ Next
  \/ \E r \in Reqs : CleanupCall(r)

SpecCleanup == InitCleanup /\ [][NextCleanup]_vars

\* ------------------------------------------------- GET /: paginated listing
ListIds == 1 .. MaxRecords
Categories == {"gifts", "corporate"}

\* a document with the fields the listing reads
ListDoc(coll, category, createdAt) ==
  [coll |-> coll, images |-> <<>>, category |-> category, createdAt |-> createdAt]

Queries ==
  [page : {undefined} \cup 1 .. MaxPage, limit : {undefined} \cup 1 .. MaxLimit,
   category : {"", "all"} \cup Categories]

\* page and limit as each router reads them
listPage(coll, query) ==
  IF query.page = undefined THEN defaultPage ELSE query.page

listLimit(coll, query) ==
  IF query.limit = undefined THEN defaultLimit ELSE query.limit

\* the filter object: the product router filters by category unless it is
\* absent or 'all'; the blog router calls Blog.find() without a filter
listFilter(coll, query) ==
  IF coll = "blog" THEN ""
  ELSE IF query.category # "" /\ query.category # "all" THEN query.category ELSE ""

\* the documents of the collection the filter matches
Matching(coll, filter) ==
  {i \in DOMAIN db : db[i].coll = coll /\ (filter = "" \/ db[i].category = filter)}

\* sort({createdAt: -1})
RECURSIVE sortByRecency(_)
sortByRecency(S) ==
  IF S = {} THEN <<>>
  ELSE LET newest == CHOOSE i \in S : \A j \in S : db[j].createdAt <= db[i].createdAt
       IN <<newest>> \o sortByRecency(S \ {newest})

\* .skip(skip).limit(limit)
skipLimit(s, skip, limit) ==
  [k \in 1 .. (IF Len(s) - skip < 0 THEN 0 ELSE IF Len(s) - skip < limit THEN Len(s) - skip ELSE limit)
     |-> s[skip + k]]

\* Math.ceil(total / limit)
ceilDiv(total, limit) == (total + limit - 1) \div limit

\* Model.find(query).sort(...).skip(skip).limit(limit)
findSlice(coll, query) ==
  LET skip == (listPage(coll, query) - 1) * listLimit(coll, query)
  IN skipLimit(sortByRecency(Matching(coll, listFilter(coll, query))), skip, listLimit(coll, query))

\* Model.countDocuments(query)
countDocuments(coll, query) == Cardinality(Matching(coll, listFilter(coll, query)))

\* res.json({items, currentPage, totalPages, total})
listJson(q) ==
  [items |-> q.found, currentPage |-> listPage(q.coll, q.query),
   totalPages |-> ceilDiv(q.count, listLimit(q.coll, q.query)), total |-> q.count]

\* the collection holds the documents 1 .. n, n <= MaxRecords, created at
\* distinct times in any order
InitList ==
  /\ now = 0
  /\ fs = {}
  /\ nextId = 1
  /\ quota = MaxUploads
  /\ cloud = {}
  /\ nextPid = 1
  /\ lateUp = 0
  /\ late = {}
  /\ env = Configured
  /\ outbox = 0
  /\ conn = NotStarted
  /\ req = [r \in Reqs |-> Idle]
  /\ \E coll \in Colls, n \in 0 .. MaxRecords :
       db \in {d \in [ListIds -> {NoDoc} \cup
                                {ListDoc(coll, c, t) : c \in Categories, t \in 1 .. n}] :
                /\ \A i \in ListIds : (d[i] # NoDoc) <=> (i <= n)
                /\ \A i, j \in 1 .. n : i # j => d[i].createdAt # d[j].createdAt}

\* GET /: both queries are started inside Promise.all
StartList(r, coll) ==
  /\ req[r].pc = "done"
  /\ \E query \in Queries :
       req' = [req EXCEPT ![r] =
                 [Idle EXCEPT !.coll = coll, !.op = "list", !.pc = "listing",
                              !.query = query, !.pend = {"find", "count"}]]
  /\ UNCHANGED <<now, fs, db, nextId, quota, late, cloud, nextPid, lateUp, env, outbox, conn>>

\* a query of the listing has resolved; when it was the last one Promise.all
\* resolves and the response is built
listResolved(q, name) ==
  LET q1 == [q EXCEPT !.pend = @ \ {name}, !.order = Append(@, name)]
  IN IF q1.pend = {} THEN Respond([q1 EXCEPT !.json = listJson(q1)], 200) ELSE q1

\* a count that does not wait for the slice before the response is built
ListCountDoneEarly(r) ==
  LET q == req[r]
      q1 == [q EXCEPT !.count = countDocuments(q.coll, q.query), !.order = Append(@, "count")]
  IN /\ q.pc = "listing" /\ "count" \in q.pend
     /\ req' = [req EXCEPT ![r] = Respond([q1 EXCEPT !.json = listJson(q1)], 200)]
     /\ UNCHANGED <<now, fs, db, nextId, quota, late, cloud, nextPid, lateUp, env, outbox, conn>>

\* Model.countDocuments resolves
ListCountDone(r) ==
  LET q == req[r]
  IN /\ q.pc = "listing" /\ "count" \in q.pend
     /\ req' = [req EXCEPT ![r] =
                  listResolved([q EXCEPT !.count = countDocuments(q.coll, q.query)], "count")]
     /\ UNCHANGED <<now, fs, db, nextId, quota, late, cloud, nextPid, lateUp, env, outbox, conn>>

\* Model.find(...).sort(...).skip(...).limit(...) resolves
ListFindDone(r) ==
  LET q == req[r]
  IN /\ q.pc = "listing" /\ "find" \in q.pend
     /\ req' = [req EXCEPT ![r] =
                  listResolved([q EXCEPT !.found = findSlice(q.coll, q.query)], "find")]
     /\ UNCHANGED <<now, fs, db, nextId, quota, late, cloud, nextPid, lateUp, env, outbox, conn>>

\* one of the pending queries rejects: Promise.all rejects, the catch block
\* answers 500
ListQueryFailed(r) ==
  LET q == req[r]
  IN /\ q.pc = "listing" /\ q.pend # {}
     /\ req' = [req EXCEPT ![r] = Respond([q EXCEPT !.err = "db"], errorStatus)]
     /\ UNCHANGED <<now, fs, db, nextId, quota, late, cloud, nextPid, lateUp, env, outbox, conn>>

NextList ==
  \/ \E r \in Reqs, coll \in Colls : StartList(r, coll)
  \/ \E r \in Reqs : ListFindDone(r)
  \/ \E r \in Reqs : ListCountDone(r)
  \/ \E r \in Reqs : ListQueryFailed(r)

SpecList == InitList /\ [][NextList]_vars


\* ----------------------------------------- the validation middleware alone
\* bodies around every limit: a text field is its length, a price is missing,
\* not a number, or a number of hundredths
BoundaryBodies ==
  [title : {0, minTitle - 1, minTitle, maxTitle, maxTitle + 1},
   text : {0, minText - 1, minText},
   price : {[kind |-> "missing", v |-> 0], [kind |-> "nan", v |-> 0]} \cup
           {[kind |-> "num", v |-> v] : v \in {-1, 0, 1}}]

\* a create or update whose upload middleware is finished
InitValidate ==
  /\ now = 0
  /\ fs = {}
  /\ db = [i \in Ids |-> NoDoc]
  /\ nextId = 1
  /\ quota = MaxUploads
  /\ cloud = {}
  /\ nextPid = 1
  /\ lateUp = 0
  /\ late = {}
  /\ env = Configured
  /\ outbox = 0
  /\ conn = NotStarted
  /\ \E coll \in Colls \cup {"remote"}, op \in {"create", "update"}, body \in BoundaryBodies :
       req = [r \in Reqs |->
                [Idle EXCEPT !.coll = coll, !.op = op, !.pc = "validate", !.body = body]]

\* validateProduct / validateBlogPost: res.status(400) or next()
ValidateBody(r) ==
  LET q == req[r]
      status == validate(q.coll, q.body)
  IN /\ q.pc = "validate"
     /\ req' = [req EXCEPT ![r] = IF status # 0 THEN Respond(q, status) ELSE [q EXCEPT !.pc = "next"]]
     /\ UNCHANGED <<now, fs, db, nextId, quota, late, cloud, nextPid, lateUp, env, outbox, conn>>

NextValidate == \E r \in Reqs : ValidateBody(r)

SpecValidate == InitValidate /\ [][NextValidate]_vars

\* ------------------------------------------------ bodies of error responses
Modes == {"development", "production"}

\* what the catch block of each handler puts into the message and the error
\* field of its response when process.env.NODE_ENV is mode
errorBody(q, mode) ==
  LET dev == (mode = "development")
  IN IF q.coll = "product" /\ q.op = "create"
       THEN [message |-> "error.message", error |-> IF dev THEN "error.stack" ELSE "undefined"]
     ELSE IF q.coll = "product" /\ q.op = "update"
       THEN [message |-> "error.message", error |-> "undefined"]
     ELSE IF q.coll = "product" /\ q.op = "list"
       THEN [message |-> "generic", error |-> "undefined"]
     ELSE IF q.coll = "blog"
       THEN [message |-> "error.message", error |-> "undefined"]
     ELSE IF q.coll = "remote" /\ q.op \in {"create", "delete", "update"}
       THEN [message |-> "generic", error |-> "error.message"]
     ELSE [message |-> "generic", error |-> IF dev THEN "error.message" ELSE "generic"]

\* ------------------------------------------------------- POST /enquiry
\* a field of the form is TRUE when the body carries a non-empty value
Forms ==
  [formType : {"contact", "enquiry", ""}, name : BOOLEAN, email : BOOLEAN,
   phone : BOOLEAN, message : BOOLEAN]

\* !name || !email || !phone || !message
missingField(form) == ~form.name \/ ~form.email \/ ~form.phone \/ ~form.message

\* a handler that looks at the mail configuration first
enquiryStatusConfigFirst(form, e) ==
  IF ~e.EMAIL_USER \/ ~e.EMAIL_PASSWORD THEN errorStatus
  ELSE IF form.formType = "contact" /\ missingField(form) THEN 400
  ELSE IF form.formType = "enquiry" /\ missingField(form) THEN 400
  ELSE 0

\* the synchronous part of the handler: 400, 500, or 0 when sendMail is called
enquiryStatus(form, e) ==
  IF form.formType = "contact" /\ missingField(form) THEN 400
  ELSE IF form.formType = "enquiry" /\ missingField(form) THEN 400
  ELSE IF ~e.EMAIL_USER \/ ~e.EMAIL_PASSWORD THEN errorStatus
  ELSE 0

InitEnquiry ==
  /\ now = 0
  /\ fs = {}
  /\ db = [i \in Ids |-> NoDoc]
  /\ nextId = 1
  /\ quota = MaxUploads
  /\ cloud = {}
  /\ nextPid = 1
  /\ lateUp = 0
  /\ late = {}
  /\ env \in [EMAIL_USER : BOOLEAN, EMAIL_PASSWORD : BOOLEAN]
  /\ outbox = 0
  /\ conn = NotStarted
  /\ req = [r \in Reqs |-> Idle]

\* POST /enquiry up to its first await: validation, configuration check,
\* transporter.sendMail(mailOptions)
StartEnquiry(r) ==
  /\ req[r].pc = "done"
  /\ outbox < MaxMails
  /\ \E form \in Forms :
       LET q == [Idle EXCEPT !.coll = "enquiry", !.op = "post", !.form = form]
           status == enquiryStatus(form, env)
       IN /\ req' = [req EXCEPT ![r] =
                       IF status = 0 THEN [q EXCEPT !.pc = "sending"]
                       ELSE Respond([q EXCEPT !.err = IF status = 400 THEN "none" ELSE "config"], status)]
          /\ outbox' = IF status = 0 THEN outbox + 1 ELSE outbox
  /\ UNCHANGED <<now, fs, db, nextId, quota, late, cloud, nextPid, lateUp, env, conn>>

\* sendMail resolves: 200
EnquirySent(r) ==
  LET q == req[r]
  IN /\ q.pc = "sending"
     /\ req' = [req EXCEPT ![r] = Respond(q, 200)]
     /\ UNCHANGED <<now, fs, db, nextId, quota, late, cloud, nextPid, lateUp, env, outbox, conn>>

\* sendMail rejects: the catch block answers 500
EnquirySendFailed(r) ==
  LET q == req[r]
  IN /\ q.pc = "sending"
     /\ req' = [req EXCEPT ![r] = Respond([q EXCEPT !.err = "mail"], errorStatus)]
     /\ UNCHANGED <<now, fs, db, nextId, quota, late, cloud, nextPid, lateUp, env, outbox, conn>>

NextEnquiry ==
  \/ \E r \in Reqs : StartEnquiry(r)
  \/ \E r \in Reqs : EnquirySent(r)
  \/ \E r \in Reqs : EnquirySendFailed(r)

SpecEnquiry == InitEnquiry /\ [][NextEnquiry]_vars

\* ------------------------------------------------ datastore connection
\* a connectWithRetry that starts an attempt whatever isConnecting is
connectWithRetryUnguarded(c) ==
  [c EXCEPT !.isConnecting = TRUE, !.inFlight = @ + 1, !.attempts = @ + 1]

\* connectWithRetry() up to its await: nothing when isConnecting, otherwise
\* isConnecting = true and mongoose.connect(...) is started
connectWithRetry(c) ==
  IF c.isConnecting THEN c
  ELSE [c EXCEPT !.isConnecting = TRUE, !.inFlight = @ + 1, !.attempts = @ + 1]

\* the call would start an attempt the model has no room for
OverAttempts(c) == c.attempts >= MaxAttempts

\* line 76: the startup call
Startup ==
  /\ ~conn.started
  /\ conn' = connectWithRetry([conn EXCEPT !.started = TRUE])
  /\ UNCHANGED <<now, fs, db, nextId, quota, late, cloud, nextPid, lateUp, env, outbox, req>>

\* mongoose moves the connection to another readyState
ReadyStateChange ==
  /\ \E rs \in ReadyStates \ {conn.readyState} : conn' = [conn EXCEPT !.readyState = rs]
  /\ UNCHANGED <<now, fs, db, nextId, quota, late, cloud, nextPid, lateUp, env, outbox, req>>

\* mongoose.connection.on('disconnected'): reconnect unless readyState is 0
Disconnected ==
  /\ conn.started
  /\ ~OverAttempts(conn)
  /\ conn' = IF conn.readyState # disconnected THEN connectWithRetry(conn) ELSE conn
  /\ UNCHANGED <<now, fs, db, nextId, quota, late, cloud, nextPid, lateUp, env, outbox, req>>

\* await mongoose.connect(...) resolves
ConnectResolved ==
  /\ conn.inFlight > 0
  /\ conn' = [conn EXCEPT !.inFlight = @ - 1, !.isConnecting = FALSE, !.readyState = connected]
  /\ UNCHANGED <<now, fs, db, nextId, quota, late, cloud, nextPid, lateUp, env, outbox, req>>

\* await mongoose.connect(...) rejects: the catch block clears the flag and
\* schedules a retry unless readyState is 0
ConnectRejected ==
  /\ conn.inFlight > 0
  /\ conn.timers < MaxTimers
  /\ conn' = [conn EXCEPT !.inFlight = @ - 1, !.isConnecting = FALSE,
                          !.timers = IF conn.readyState # disconnected THEN @ + 1 ELSE @]
  /\ UNCHANGED <<now, fs, db, nextId, quota, late, cloud, nextPid, lateUp, env, outbox, req>>

\* setTimeout(connectWithRetry, 5000) fires
RetryTimer ==
  /\ conn.timers > 0
  /\ ~OverAttempts(conn)
  /\ conn' = connectWithRetry([conn EXCEPT !.timers = @ - 1])
  /\ UNCHANGED <<now, fs, db, nextId, quota, late, cloud, nextPid, lateUp, env, outbox, req>>

NextConnect ==
  \/ Startup
  \/ ReadyStateChange
  \/ Disconnected
  \/ ConnectResolved
  \/ ConnectRejected
  \/ RetryTimer

SpecConnect == Init /\ [][NextConnect]_vars

TypeOK ==
  /\ now \in 0 .. MaxClock
  /\ nextId \in 1 .. MaxId + 1
  /\ \A r \in Reqs : req[r].pc \in {"done", "upload", "save", "catch", "find", "cleanup", "unlink", "remove",
                                 "uploading", "destroying", "destroy2", "call", "returned",
                                 "listing", "validate", "next", "sending"}
  /\ quota \in 0 .. MaxUploads
  /\ nextPid \in 1 .. MaxImages + 1
  /\ cloud \subseteq 1 .. MaxImages
  /\ outbox \in 0 .. MaxMails
  /\ conn.readyState \in ReadyStates
  /\ conn.attempts \in 0 .. MaxAttempts
  /\ conn.timers \in 0 .. MaxTimers

\* ============================================================== properties
\* where the Media Store keeps the file an image reference stands for
StoredAt(coll, ref) ==
  IF coll = "product" THEN productDestination(ref.name) ELSE blogDestination(ref.name)

\* the reference resolves to a file of the Media Store
Resolves(coll, ref) ==
  IF coll = "remote" THEN ref.public_id \in cloud ELSE StoredAt(coll, ref) \in fs

Persisted == {i \in Ids : db[i] # NoDoc}
LocalDocs == {i \in Persisted : db[i].coll # "remote"}
RemoteDocs == {i \in Persisted : db[i].coll = "remote"}

ReferencedFiles ==
  UNION {{StoredAt(db[i].coll, db[i].images[j]) : j \in 1 .. Len(db[i].images)} : i \in LocalDocs}

ReferencedIds ==
  UNION {{db[i].images[j].public_id : j \in 1 .. Len(db[i].images)} : i \in RemoteDocs}

\* no handler is running and nothing is left in flight
Quiescent == (\A r \in Reqs : req[r].pc = "done") /\ late = {} /\ lateUp = 0

Local(q) == q.coll \in {"product", "blog"}

\* the files a request stored, as the Media Store holds them
StoredBy(q) ==
  IF q.coll = "remote" THEN Range(q.files) \cup Range(q.res)
  ELSE {StoredAt(q.coll, [name |-> q.files[i]]) : i \in 1 .. Len(q.files)}

\* the Media Store still holds the item
Held(q, f) == IF q.coll = "remote" THEN f \in cloud ELSE f \in fs

\* C1: once every request has been answered and nothing is in flight, every
\* file of the Media Store is referenced by the image set of a persisted record
C1_NoOrphanedFiles ==
  Quiescent => (fs \subseteq ReferencedFiles /\ cloud \subseteq ReferencedIds)

\* C2: once every request has been answered and nothing is in flight, every
\* image reference of a persisted record resolves to a file of the Media Store
C2_NoDanglingReferences ==
  Quiescent =>
    \A i \in Persisted : \A j \in 1 .. Len(db[i].images) : Resolves(db[i].coll, db[i].images[j])

\* C3: when a create is answered with an error after its save failed, none of
\* the files it stored is left in the Media Store, except those whose own
\* deletion failed
C3_CreateFailureCompensation ==
  \A r \in Reqs :
    LET q == req[r]
    IN (q.pc = "done" /\ q.op = "create" /\ q.err \in {"db", "timeout"}) =>
         \A f \in StoredBy(q) : Held(q, f) => f \in q.failed

\* C4 as stated: a local product create whose save times out is answered 504
\* and every file uploaded in the request is deleted
C4_TimeoutDeletesEveryFile ==
  \A r \in Reqs :
    LET q == req[r]
    IN (q.pc = "done" /\ q.coll = "product" /\ q.op = "create" /\ q.err = "timeout") =>
         /\ q.status = timeoutStatus
         /\ \A f \in StoredBy(q) : f \notin fs

\* C4 amended: a local product create answers 504 exactly when the timer won
\* the race and 500 when the save failed; in both cases unlink was attempted
\* on every file of the request, and every file is gone except those whose
\* unlink threw
C4_TimeoutHandledAsFailure ==
  \A r \in Reqs :
    LET q == req[r]
    IN (q.pc = "done" /\ q.coll = "product" /\ q.op = "create" /\ q.status # 400) =>
         /\ (q.err = "timeout") <=> (q.status = timeoutStatus)
         /\ (q.err = "db") <=> (q.status = errorStatus)
         /\ (q.err = "none") <=> (q.status = 201)
         /\ q.err \in {"db", "timeout"} =>
              /\ q.tried = StoredBy(q)
              /\ \A f \in StoredBy(q) : f \in fs => f \in q.failed

C4_Witness ==
  \E r \in Reqs :
    LET q == req[r]
    IN /\ q.pc = "done" /\ q.coll = "product" /\ q.op = "create"
       /\ q.err = "timeout" /\ q.status = timeoutStatus
       /\ Len(q.files) > 1
       /\ StoredBy(q) \cap fs = {}

\* C5: after a delete answered with success, no file the deleted record
\* referenced is left in the Media Store (except one whose deletion failed),
\* and the record is gone
C5_DeleteReclaimsImages ==
  \A r \in Reqs :
    LET q == req[r]
    IN (q.pc = "done" /\ Local(q) /\ q.op = "delete" /\ q.status = 200) =>
         /\ db[q.id] = NoDoc
         /\ \A i \in 1 .. Len(q.old) :
              StoredAt(q.coll, q.old[i]) \in fs => StoredAt(q.coll, q.old[i]) \in q.failed

\* C10: a create or update rejected by validation has stored no file
C10_ValidationPrecedesStorage ==
  \A r \in Reqs :
    LET q == req[r]
    IN (q.pc = "done" /\ q.op \in {"create", "update"} /\ q.status = 400 /\ q.err = "none") =>
         q.files = <<>>

\* the deletions a delete handler owes the images of the record it read
Attempts(q) ==
  IF q.coll = "remote" THEN {q.old[i].public_id : i \in 1 .. Len(q.old)}
  ELSE {pathJoin(PublicDir, q.old[i]) : i \in 1 .. Len(q.old)}

\* C6: a delete that found its record and met no repository failure attempts
\* the deletion of every image, removes the record and answers 200, whichever
\* image deletions fail
C6_DeleteBestEffort ==
  \A r \in Reqs :
    LET q == req[r]
    IN (q.pc = "done" /\ q.op \in {"delete", "delete2"} /\ q.status \notin {400, 404}
          /\ q.err # "db") =>
         /\ q.status = 200
         /\ db[q.id] = NoDoc
         /\ q.tried = Attempts(q)

\* the marked identifiers the record read by a remote update references
MarkedReferenced(q) ==
  IF q.isArray
  THEN {q.marked[k] : k \in 1 .. Len(q.marked)} \cap {q.old[i].public_id : i \in 1 .. Len(q.old)}
  ELSE {}

\* C7: in a remote update a destroy is attempted for every marked identifier
\* the record references, whichever of them fail, and a failed destroy by
\* itself never ends the update with an error: the update goes on to its
\* uploads and its save
C7_RemovalsBestEffort ==
  \A r \in Reqs :
    LET q == req[r]
    IN (q.coll = "remote" /\ q.op = "update") =>
         /\ q.pc \in {"uploading", "save"} => q.tried = MarkedReferenced(q)
         /\ q.failed \subseteq q.tried
         /\ q.pc = "done" => (q.status \in {200, 400, 404} \/ q.err \in {"db", "upload"})

C7_Witness ==
  \E r \in Reqs :
    LET q == req[r]
    IN /\ q.pc = "done" /\ q.coll = "remote" /\ q.op = "update" /\ q.status = 200
       /\ q.failed # {}
       /\ q.tried \ q.failed # {}

\* the image reference a local router writes for an uploaded file
imageRef(coll, filename) ==
  IF coll = "product" THEN productImageRef(filename) ELSE blogImageRef(filename)

\* C8: after a successful local update the persisted image list is the list
\* the handler read followed by the references of the uploaded files, in
\* order, and no step of a local update removes a file from the disk
C8_LocalUpdateAppends ==
  /\ [](\A r \in Reqs :
          LET q == req[r]
          IN (q.pc = "done" /\ Local(q) /\ q.op = "update" /\ q.status = 200) =>
               /\ db[q.id].images =
                    q.old \o [i \in 1 .. Len(q.files) |-> imageRef(q.coll, q.files[i])]
               /\ q.tried = {})
  /\ [][\A r \in Reqs :
          (Local(req[r]) /\ req[r].op = "update" /\ req[r].pc # "done") => fs \subseteq fs']_vars

C8_Witness ==
  \E r \in Reqs :
    LET q == req[r]
    IN /\ q.pc = "done" /\ Local(q) /\ q.op = "update" /\ q.status = 200
       /\ q.old # <<>> /\ q.files # <<>>
       /\ \A i \in 1 .. Len(q.old) : StoredAt(q.coll, q.old[i]) \in fs

C11_MalformedIdRejected ==
  \A r \in Reqs :
    LET q == req[r]
    IN (q.pc = "done" /\ q.op \in {"get", "delete", "delete2"} /\ ~isValid(q.id)) =>
         (q.status = 400 /\ q.tried = {})

\* the slice and the counts the listing must return: the records of the
\* collection that match the category filter (all of them when category is
\* absent or 'all'), newest first, ranks (p-1)*L+1 .. min(p*L, T)
ExpectedListing(coll, query) ==
  LET p == IF query.page = undefined THEN defaultPage ELSE query.page
      L == IF query.limit = undefined THEN defaultLimit ELSE query.limit
      M == {i \in DOMAIN db : db[i].coll = coll /\
              (query.category \in {"", "all"} \/ db[i].category = query.category)}
      T == Cardinality(M)
      rank(i) == 1 + Cardinality({j \in M : db[j].createdAt > db[i].createdAt})
      lo == (p - 1) * L + 1
      hi == IF p * L < T THEN p * L ELSE T
      pages == CHOOSE n \in 0 .. T : n * L >= T /\ (n = 0 \/ (n - 1) * L < T)
  IN [items |-> [k \in 1 .. (IF hi < lo THEN 0 ELSE hi - lo + 1) |->
                   CHOOSE i \in M : rank(i) = lo + k - 1],
      currentPage |-> p, totalPages |-> pages, total |-> T]

\* C12: a listing answered with 200 returns exactly the records ranked
\* (p-1)*L+1 .. min(p*L, T) among the T records matching the category filter,
\* newest first, with totalCount T and totalPages ceil(T / L)
C12_ListingSlice ==
  \A r \in Reqs :
    LET q == req[r]
    IN (q.pc = "done" /\ q.op = "list" /\ q.status = 200) =>
         q.json = ExpectedListing(q.coll, q.query)

\* C13: both queries of a listing are in flight together, a 200 response is
\* built only after both completed and is the same for either completion
\* order, and a failed query gives 500 and no listing
C13_ListingQueriesIndependent ==
  \A r \in Reqs :
    LET q == req[r]
    IN q.op = "list" =>
         /\ q.pc = "listing" => (q.pend \cup Range(q.order) = {"find", "count"} /\ q.pend # {})
         /\ (q.pc = "done" /\ q.status = 200) =>
               /\ Range(q.order) = {"find", "count"}
               /\ q.json = [items |-> findSlice(q.coll, q.query),
                            currentPage |-> listPage(q.coll, q.query),
                            totalPages |-> ceilDiv(countDocuments(q.coll, q.query),
                                                   listLimit(q.coll, q.query)),
                            total |-> countDocuments(q.coll, q.query)]
         /\ (q.pc = "done" /\ q.status # 200) =>
               (q.status = errorStatus /\ q.err = "db" /\ q.json = NoJson)

\* the count completed before the slice, and the answer carries a second page
C13_Witness ==
  \E r \in Reqs :
    LET q == req[r]
    IN /\ q.pc = "done" /\ q.op = "list" /\ q.status = 200
       /\ q.order = <<"count", "find">>
       /\ q.json.currentPage = 2 /\ q.json.items # <<>> /\ q.json.totalPages = 2

\* the items of the Media Store the image set of a record resolves to
ResolvedBy(doc) ==
  IF doc.coll = "remote" THEN {doc.images[j].public_id : j \in 1 .. Len(doc.images)}
  ELSE {StoredAt(doc.coll, doc.images[j]) : j \in 1 .. Len(doc.images)}

\* C14: a create answered 201 for a request with N uploaded images persisted
\* a record with exactly N image references, which resolve to N distinct
\* stored files, and the Media Store holds no other file stored by the request
C14_CreateReferencesUploads ==
  \A r \in Reqs :
    LET q == req[r]
        N == Len(q.files)
    IN (q.pc = "done" /\ q.op = "create" /\ q.status = 201) =>
         /\ Len(db[q.id].images) = N
         /\ Cardinality(ResolvedBy(db[q.id])) = N
         /\ \A f \in ResolvedBy(db[q.id]) : Held(q, f)
         /\ \A f \in StoredBy(q) : Held(q, f) => f \in ResolvedBy(db[q.id])

\* C15: every file the local Media Store stores gets a name no stored file
\* has, so a store step always adds a file and the names of one request are
\* pairwise distinct
C15_CollisionResistantNames ==
  /\ [](\A r \in Reqs :
          Local(req[r]) =>
            \A i, j \in 1 .. Len(req[r].files) : i # j => req[r].files[i] # req[r].files[j])
  /\ [][\A r \in Reqs :
          (Local(req'[r]) /\ Len(req'[r].files) > Len(req[r].files)) => fs' # fs]_vars

\* the bodies validation must reject: a required field is missing, the title
\* is shorter than 3 or longer than 100, the description or content is
\* shorter than 10, or (products) the price is not a number greater than 0
MustReject(coll, body) ==
  \/ body.title = 0 \/ body.text = 0
  \/ body.title < 3 \/ body.title > 100
  \/ body.text < 10
  \/ coll # "blog" /\ (body.price.kind # "num" \/ body.price.v <= 0)

\* C16: validation answers 400 exactly for the bodies it must reject and
\* passes every other body on to the handler
C16_ValidationBoundaries ==
  \A r \in Reqs :
    LET q == req[r]
    IN (q.op \in {"create", "update"} /\ q.pc \in {"done", "next"}) =>
         /\ (q.pc = "done" /\ q.status = 400) <=> MustReject(q.coll, q.body)
         /\ (q.pc = "next") <=> ~MustReject(q.coll, q.body)

\* title of length 3, description of length 10 and the smallest positive
\* price are accepted
C16_Witness ==
  \E r \in Reqs :
    LET q == req[r]
    IN /\ q.pc = "next" /\ q.coll = "product"
       /\ q.body.title = 3 /\ q.body.text = 10
       /\ q.body.price = [kind |-> "num", v |-> 1]

\* C17: a create, update, delete or get answered with a 5xx status carries
\* the underlying error's message or stack only in development mode
C17_ErrorDetailHidden ==
  \A r \in Reqs, mode \in Modes :
    LET q == req[r]
        sent == errorBody(q, mode)
    IN (q.pc = "done" /\ q.status >= 500 /\ q.op \in {"create", "update", "delete", "delete2", "get"}
          /\ mode # "development") =>
         {sent.message, sent.error} \cap {"error.message", "error.stack"} = {}

\* C18: a contact or enquiry form with one of name, email, phone, message
\* missing is answered 400 whatever the mail configuration is, and the step
\* that receives it hands no mail to the relay
C18_EnquiryRequiredFields ==
  /\ [](\A r \in Reqs :
          LET q == req[r]
          IN (q.op = "post" /\ q.form.formType \in {"contact", "enquiry"}
                /\ (~q.form.name \/ ~q.form.email \/ ~q.form.phone \/ ~q.form.message)) =>
               (q.pc = "done" /\ q.status = 400))
  /\ [][\A r \in Reqs :
          LET q == req'[r]
          IN (q # req[r] /\ q.op = "post" /\ q.form.formType \in {"contact", "enquiry"}
                /\ (~q.form.name \/ ~q.form.email \/ ~q.form.phone \/ ~q.form.message)) =>
               outbox' = outbox]_vars

\* an enquiry form without a phone number is refused with 400 although the
\* mail credentials are not configured
C18_Witness ==
  \E r \in Reqs :
    LET q == req[r]
    IN /\ q.pc = "done" /\ q.op = "post" /\ q.status = 400
       /\ q.form = [formType |-> "enquiry", name |-> TRUE, email |-> TRUE,
                    phone |-> FALSE, message |-> TRUE]
       /\ ~env.EMAIL_USER

\* C19: a local product create answered 201 has its record persisted, and
\* one answered 500 or 504 has no record in the repository, then or later
C19_CreateExclusiveOutcome ==
  \A r \in Reqs :
    LET q == req[r]
    IN (q.pc = "done" /\ q.coll = "product" /\ q.op = "create") =>
         /\ q.status = 201 => db[q.id] # NoDoc
         /\ q.status \in {errorStatus, timeoutStatus} => db[q.id] = NoDoc

\* C20: after a successful remote update the persisted image set is the old
\* set without the images whose destroy resolved, followed by the newly
\* uploaded images; only marked identifiers the record references are
\* destroyed, and failed or unreferenced ones leave the set as it was
C20_RemoteUpdateImageSet ==
  \A r \in Reqs :
    LET q == req[r]
    IN (q.coll = "remote" /\ q.op = "update") =>
         /\ q.pc \in {"destroying", "uploading", "save"} =>
              (q.destroyed \subseteq MarkedReferenced(q) /\ q.destroyed \subseteq q.tried)
         /\ (q.pc = "done" /\ q.status = 200) =>
              /\ db[q.id].images =
                   SelectSeq(q.old, LAMBDA img : img.public_id \notin q.destroyed)
                     \o [i \in 1 .. Len(q.res) |-> remoteImage(q.res[i])]
              /\ Len(q.res) = Len(q.files)

\* one marked image was destroyed, the destroy of another failed, and an
\* image was uploaded
C20_Witness ==
  \E r \in Reqs :
    LET q == req[r]
    IN /\ q.pc = "done" /\ q.coll = "remote" /\ q.op = "update" /\ q.status = 200
       /\ q.destroyed # {}
       /\ q.failed \ q.destroyed # {}
       /\ q.res # <<>>

\* C21: at most one connection attempt is in flight, isConnecting is false
\* whenever none is, a call made while isConnecting is true starts no attempt,
\* and a retry timer is scheduled only by a failed attempt that finds
\* readyState different from 0
C21_SingleConnectionAttempt ==
  /\ [](conn.inFlight <= 1 /\ (conn.inFlight = 0 => ~conn.isConnecting))
  /\ [][/\ conn.isConnecting => conn'.attempts = conn.attempts
        /\ conn'.timers > conn.timers =>
              (conn.readyState # 0 /\ conn'.inFlight < conn.inFlight)]_vars

\* a retry is scheduled and another attempt, started meanwhile, is in flight
C21_Witness ==
  /\ conn.inFlight = 1 /\ conn.isConnecting
  /\ conn.timers > 0
  /\ conn.attempts > 1

====
